---- MODULE Spec2Model ----
(***************************************************************************)
(* A model of lib.go.sound: the sine generator (pkg/sine), the Nyquist     *)
(* gate and the sample encoders (pkg/format), and the WriteTo pipeline     *)
(* that streams the encoded samples to an io.Writer.                       *)
(*                                                                         *)
(* float64 values are modelled as sign/magnitude fixed-point numbers on    *)
(* the grid 1/Unit (all of them exactly representable as float64), plus    *)
(* the IEEE-754 specials NaN, +Inf and -Inf and the signed zero.  Every    *)
(* input of the model is chosen so that the products and quotients the     *)
(* code forms stay on the grid, so the arithmetic below is exact, as it    *)
(* is in float64 for these inputs.                                         *)
(***************************************************************************)
EXTENDS Integers, Sequences, FiniteSets, TLC

\* The fixed-point grid of the modelled float64 values: 1.0 is Unit/Unit.
Unit == 2^10

(***************************************************************************)
(* float64                                                                 *)
(***************************************************************************)

\* A finite float64: (-1)^neg * mag / Unit.
Fin(neg, mag) == [cls |-> "fin", neg |-> neg, mag |-> mag]

\* A NaN with its sign bit and the low bit of its payload.
NaNOf(neg, payload) == [cls |-> "nan", neg |-> neg, mag |-> payload]

\* math.NaN(): the bit pattern 0x7FF8000000000001.
MathNaN == NaNOf(FALSE, 1)

\* math.Inf(sign)
Inf(neg) == [cls |-> "inf", neg |-> neg, mag |-> 0]

\* The float64 of a small integer (float64(n), or an integer literal).
FloatOfInt(n) == Fin(n < 0, (IF n < 0 THEN -n ELSE n) * Unit)

\* The builds of the program the model distinguishes: they differ where the
\* Go specification leaves a float conversion implementation-dependent, and
\* in the NaN an invalid float operation produces.
Archs == {"amd64", "arm64"}

\* The NaN an invalid operation (Inf*0, 0/0) yields: the x86 "real
\* indefinite" has its sign bit set, the ARM default NaN has not.
DefaultNaN(arch) == NaNOf(arch = "amd64", 0)

IsNaN(x) == x.cls = "nan"

IsInf(x) == x.cls = "inf"

IsZero(x) == x.cls = "fin" /\ x.mag = 0

\* x < y on float64: false when either is NaN; -0 and +0 are equal.
FLt(x, y) ==
    IF IsNaN(x) \/ IsNaN(y) THEN FALSE
    ELSE IF IsInf(x) THEN x.neg /\ ~(IsInf(y) /\ y.neg)
    ELSE IF IsInf(y) THEN ~y.neg
    ELSE (IF x.neg THEN -x.mag ELSE x.mag) < (IF y.neg THEN -y.mag ELSE y.mag)

\* x > y on float64.
FGt(x, y) == FLt(y, x)

\* x == y on float64: false when either is NaN; -0 == +0.
FEq(x, y) ==
    /\ ~IsNaN(x)
    /\ ~IsNaN(y)
    /\ x.cls = y.cls
    /\ IF IsInf(x) THEN x.neg = y.neg
       ELSE (IF x.neg THEN -x.mag ELSE x.mag) = (IF y.neg THEN -y.mag ELSE y.mag)

\* x >= y on float64.
FGe(x, y) == FGt(x, y) \/ FEq(x, y)

\* x <= y on float64.
FLe(x, y) == FLt(x, y) \/ FEq(x, y)

\* math.Abs
FAbs(x) == [x EXCEPT !.neg = FALSE]

\* x * y on float64 (exact on the grid for the model's inputs).
FMul(arch, x, y) ==
    IF IsNaN(x) THEN x
    ELSE IF IsNaN(y) THEN y
    ELSE IF (IsInf(x) /\ IsZero(y)) \/ (IsZero(x) /\ IsInf(y)) THEN DefaultNaN(arch)
    ELSE IF IsInf(x) \/ IsInf(y) THEN Inf(x.neg # y.neg)
    ELSE Fin(x.neg # y.neg, (x.mag * y.mag) \div Unit)

\* x / y on float64 (exact on the grid for the model's inputs).
FDiv(arch, x, y) ==
    IF IsNaN(x) THEN x
    ELSE IF IsNaN(y) THEN y
    ELSE IF (IsInf(x) /\ IsInf(y)) \/ (IsZero(x) /\ IsZero(y)) THEN DefaultNaN(arch)
    ELSE IF IsInf(x) THEN Inf(x.neg # y.neg)
    ELSE IF IsInf(y) THEN Fin(x.neg # y.neg, 0)
    ELSE IF IsZero(y) THEN Inf(x.neg # y.neg)
    ELSE Fin(x.neg # y.neg, (x.mag * Unit) \div y.mag)

\* A Go int: a value v, or (big = "min" / "max") the smallest / largest int,
\* which is what an out-of-range float conversion produces.
GoInt(v) == [big |-> "no", v |-> v]

MinInt == [big |-> "min", v |-> 0]

MaxInt == [big |-> "max", v |-> 0]

\* int(x) for a float64 x: truncation toward zero.  For NaN and the
\* infinities the Go specification leaves the result to the implementation:
\* amd64 (CVTTSD2SQ) yields the smallest int, arm64 (FCVTZS) saturates and
\* maps NaN to 0.
FloatToInt(arch, x) ==
    IF x.cls = "fin" THEN GoInt((IF x.neg THEN -1 ELSE 1) * (x.mag \div Unit))
    ELSE IF arch = "amd64" THEN MinInt
    ELSE IF IsNaN(x) THEN GoInt(0)
    ELSE IF x.neg THEN MinInt
    ELSE MaxInt

\* The position of the highest set bit of m > 0.
RECURSIVE Log2(_)
Log2(m) == IF m <= 1 THEN 0 ELSE 1 + Log2(m \div 2)

\* A uint64 as four 16-bit limbs, least significant first.
\* math.Float64bits: sign (1 bit), biased exponent (11), fraction (52).
Float64bits(x) ==
    LET sign == IF x.neg THEN 32768 ELSE 0 IN
    IF IsNaN(x) THEN <<x.mag, 0, 0, sign + 32760>>
    ELSE IF IsInf(x) THEN <<0, 0, 0, sign + 32752>>
    ELSE IF x.mag = 0 THEN <<0, 0, 0, sign>>
    ELSE LET p    == Log2(x.mag)
             bexp == 1023 + p - Log2(Unit)
             \* the top 20 bits of the fraction; its low 32 bits are zero
             \* for every value of the grid below 2^20/Unit
             m20  == (x.mag - 2^p) * 2^(20 - p)
         IN <<0, 0, m20 % 65536, sign + bexp * 16 + m20 \div 65536>>

(***************************************************************************)
(* pkg/format: the sample encoders                                         *)
(***************************************************************************)

Formats == {"PCM16", "PCM32", "Float64"}

BitDepth(f) ==
    CASE f = "PCM16" -> 16
      [] f = "PCM32" -> 32
      [] f = "Float64" -> 64

\* A slip: the second branch returns minVal as the first does.
ClampToMin(value, minVal, maxVal) ==
    IF FLt(value, minVal) THEN minVal
    ELSE IF FGt(value, maxVal) THEN minVal
    ELSE value

Clamp(value, minVal, maxVal) ==
    IF FLt(value, minVal) THEN minVal
    ELSE IF FGt(value, maxVal) THEN maxVal
    ELSE value

\* v >> k on a signed integer (arithmetic shift).
Shr(v, k) == v \div 2^k

\* byte(v & 0xFF)
LowByte(v) == v % 256

\* A slip: the product is rounded to the nearest integer (math.Round) before
\* the conversion.
FloatToInt16Rounded(arch, x, scale) ==
    IF IsNaN(x) THEN 0
    ELSE (IF x.neg THEN -1 ELSE 1) * ((x.mag * scale + Unit \div 2) \div Unit)

\* int16(x) for a float64 x: truncation toward zero; the value of int16(NaN)
\* is implementation-dependent: amd64 converts to 32 bits (0x80000000) and
\* keeps the low 16, arm64 yields 0: both give 0.
FloatToInt16(arch, x, scale) ==
    IF IsNaN(x) THEN 0
    ELSE (IF x.neg THEN -1 ELSE 1) * ((x.mag * scale) \div Unit)

\* A slip: the sample is scaled without being clamped; the conversion of a
\* product beyond int16 keeps its low 16 bits (amd64).
PCM16QuantizeUnclamped(arch, sample) ==
    LET v == IF sample.cls = "fin" THEN FloatToInt16(arch, sample, 32767) ELSE 0
    IN ((v + 32768) % 65536) - 32768

\* A slip: the sample is scaled by 32768, the size of the negative half of
\* the int16 range.
PCM16QuantizeFullRange(arch, sample) ==
    LET clamped == Clamp(sample, FloatOfInt(-1), FloatOfInt(1))
        v == FloatToInt16(arch, clamped, 32768)
    IN ((v + 32768) % 65536) - 32768

\* Quantize scale the float64 sample to the full int16 range
PCM16Quantize(arch, sample) ==
    LET clamped == Clamp(sample, FloatOfInt(-1), FloatOfInt(1))
    IN FloatToInt16(arch, clamped, 32767)

PCM16Encode(value) == <<LowByte(value), LowByte(Shr(value, 8))>>

PCM16ConvertSample(arch, sample) == PCM16Encode(PCM16Quantize(arch, sample))

\* int32(x * 2147483647.0) for a float64 x in [-1, 1]: the product is exact
\* in float64 and is truncated toward zero; it is formed here in two parts
\* to stay within 32 bits.  int32(NaN) is implementation-dependent:
\* amd64 (CVTTSD2SL) yields -2147483648, arm64 (FCVTZS) yields 0.
FloatToInt32(arch, x) ==
    IF IsNaN(x) THEN (IF arch = "amd64" THEN -2147483647 - 1 ELSE 0)
    ELSE LET q == 2147483647 \div Unit
             r == 2147483647 % Unit
         IN (IF x.neg THEN -1 ELSE 1) * (x.mag * q + (x.mag * r) \div Unit)

\* Quantize scale the float64 sample to the full int32 range
PCM32Quantize(arch, sample) ==
    LET clamped == Clamp(sample, FloatOfInt(-1), FloatOfInt(1))
    IN FloatToInt32(arch, clamped)

\* A slip: the most significant byte comes first.
PCM32EncodeBigEndian(value) ==
    <<LowByte(Shr(value, 24)), LowByte(Shr(value, 16)),
      LowByte(Shr(value, 8)), LowByte(value)>>

\* A slip: the top byte is left out.
PCM32EncodeShort(value) ==
    <<LowByte(value), LowByte(Shr(value, 8)), LowByte(Shr(value, 16))>>

PCM32Encode(value) ==
    <<LowByte(value), LowByte(Shr(value, 8)),
      LowByte(Shr(value, 16)), LowByte(Shr(value, 24))>>

PCM32ConvertSample(arch, sample) == PCM32Encode(PCM32Quantize(arch, sample))

\* A slip: the sample is clamped to [-1, 1] as the PCM formats clamp it.
Float64QuantizeClamped(sample) ==
    Float64bits(Clamp(sample, FloatOfInt(-1), FloatOfInt(1)))

\* Quantize converts the float64 sample to IEEE 754 binary representation
Float64Quantize(sample) == Float64bits(sample)

\* value >> (8*i) & 0xFF on the limbs of a uint64
Byte64(value, i) == LowByte(Shr(value[(i \div 2) + 1], 8 * (i % 2)))

Float64Encode(value) == [i \in 1..8 |-> Byte64(value, i - 1)]

Float64ConvertSample(sample) == Float64Encode(Float64Quantize(sample))

\* s.Format.ConvertSample(sample): the dispatch on the AudioFormat interface.
ConvertSample(arch, f, sample) ==
    CASE f = "PCM16" -> PCM16ConvertSample(arch, sample)
      [] f = "PCM32" -> PCM32ConvertSample(arch, sample)
      [] f = "Float64" -> Float64ConvertSample(sample)

(***************************************************************************)
(* pkg/sine: the configuration                                             *)
(***************************************************************************)

\* time.Second in the model's duration tick (a time.Duration counts ticks of
\* a quarter of a second here, nanoseconds in the program).
Second == 2^2

\* A slip: the duration in whole seconds (an integer division of the ticks).
SecondsWhole(d) == FloatOfInt((IF d < 0 THEN -1 ELSE 1) * ((IF d < 0 THEN -d ELSE d) \div Second))

\* Duration.Seconds(): the duration as a float64 number of seconds.
Seconds(d) == Fin(d < 0, ((IF d < 0 THEN -d ELSE d) * Unit) \div Second)

WithAmplitude(amplitude) == [opt |-> "WithAmplitude", val |-> amplitude]

WithSamplingRate(rate) == [opt |-> "WithSamplingRate", val |-> rate]

WithFormat(fmt) == [opt |-> "WithFormat", val |-> fmt]

\* A slip: the closure sets the field of a copy of the Sine (a value, not a
\* pointer), so the Sine being built keeps its fields.
ApplyOptionOnCopy(s, o) == s

\* opt(sine): the closure an Option holds, applied to the Sine being built.
ApplyOption(s, o) ==
    CASE o.opt = "WithAmplitude" -> [s EXCEPT !.Amplitude = o.val]
      [] o.opt = "WithSamplingRate" -> [s EXCEPT !.SamplingRate = o.val]
      [] o.opt = "WithFormat" -> [s EXCEPT !.Format = o.val]

RECURSIVE ApplyOptions(_, _)
ApplyOptions(s, options) ==
    IF options = <<>> THEN s
    ELSE ApplyOptions(ApplyOption(s, Head(options)), Tail(options))

\* The default sampling rate, 44100.0 Hz.
DefaultSamplingRate == FloatOfInt(44100)

NewSine(frequency, duration, options) ==
    ApplyOptions([Frequency    |-> frequency,
                  Duration     |-> duration,
                  Amplitude    |-> FloatOfInt(1),
                  SamplingRate |-> DefaultSamplingRate,
                  Format       |-> "PCM16"], options)

(***************************************************************************)
(* pkg/sine: the signal                                                    *)
(***************************************************************************)

\* sin(2*pi*k/8) for k = 0..7 on the grid 1/Unit (sin(pi/4) is rounded to
\* 724/1024; math.Sin's last-bit errors at the zero crossings are dropped).
SinTable == <<0, 724, 1024, 724, 0, -724, -1024, -724>>

\* math.Sin of the angle 2*pi*turns.  The angle is kept in turns, 2*pi being
\* irrational; every finite angle the model forms is a multiple of 1/8 turn.
\* math.Sin returns NaN() for a NaN or an infinite argument.
SinOfTurns(turns) ==
    IF turns.cls # "fin" THEN MathNaN
    ELSE LET k == ((turns.mag * 8) \div Unit) % 8
             v == SinTable[k + 1]
         IN Fin((v < 0) # turns.neg, IF v < 0 THEN -v ELSE v)

\* amplitude * sin(2*pi*frequency*t)
continuousSignalAt(arch, s, t) ==
    LET angle == FMul(arch, s.Frequency, t)
    IN FMul(arch, s.Amplitude, SinOfTurns(angle))

\* A slip: a strict comparison, which lets the Nyquist frequency itself pass.
applyAntiAliasingFilterStrict(arch, s, signal) ==
    LET nyquist == FDiv(arch, s.SamplingRate, FloatOfInt(2))
    IN IF FGt(s.Frequency, nyquist) THEN FloatOfInt(0) ELSE signal

\* The Nyquist gate: 0.0 when the frequency is at or above half the sampling
\* rate, the signal otherwise.
applyAntiAliasingFilter(arch, s, signal) ==
    LET nyquist == FDiv(arch, s.SamplingRate, FloatOfInt(2))
    IN IF FGe(s.Frequency, nyquist) THEN FloatOfInt(0) ELSE signal

calculateSampleValue(arch, n, s) ==
    LET t == FDiv(arch, FloatOfInt(n), s.SamplingRate)
    IN applyAntiAliasingFilter(arch, s, continuousSignalAt(arch, s, t))

\* totalSamples := int(s.SamplingRate * s.Duration.Seconds())
totalSamples(arch, s) ==
    FloatToInt(arch, FMul(arch, s.SamplingRate, Seconds(s.Duration)))

\* The largest slice length the model's runtime allocates; longer ones (and
\* negative ones) make makeslice panic.
MaxAlloc == 2^20

\* make([]float64, len) panics (makeslice: len out of range).
MakePanics(len) == len.big # "no" \/ len.v < 0 \/ len.v > MaxAlloc

(***************************************************************************)
(* The inputs of the model                                                 *)
(***************************************************************************)

\* The largest frequency (Hz) and the longest duration (in ticks) tried.
MaxFrequency == 3

MaxDuration == 4

\* Frequencies: 1..MaxFrequency Hz, and the out-of-domain NaN.
Frequencies == {FloatOfInt(f) : f \in 1..MaxFrequency} \cup {MathNaN}

\* Durations, in ticks: a negative one, zero, and up to MaxDuration.
Durations == (-1)..MaxDuration

\* Amplitudes given to WithAmplitude: 0, 0.5, 2, and the out-of-domain +Inf
\* (the default 1.0 is what a construction without the option has).
Amplitudes == {FloatOfInt(0), Fin(FALSE, Unit \div 2), FloatOfInt(2), Inf(FALSE)}

\* Sampling rates given to WithSamplingRate: 2, 4 and 8 Hz, and the
\* out-of-domain 0 Hz and NaN.
SamplingRates ==
    {FloatOfInt(2), FloatOfInt(4), FloatOfInt(8), FloatOfInt(0), MathNaN}

\* The option lists tried: WithSamplingRate always (the default rate of
\* 44100 Hz makes buffers no model holds), the other two or not.
OptionLists ==
    {a \o r \o f :
        a \in {<<>>} \cup {<<WithAmplitude(v)>> : v \in Amplitudes},
        r \in {<<WithSamplingRate(v)>> : v \in SamplingRates},
        f \in {<<>>} \cup {<<WithFormat(v)>> : v \in Formats \ {"PCM16"}}}

\* The errors the sink's Write may return.
SinkErrors == {"EIO", "ENOSPC"}

\* The most bytes a failing Write reports as written (io.Writer: fewer than
\* len(p) whenever it returns an error for a short write).
MaxPartial == 1

NoErr == [msg |-> "", wraps |-> "nil"]

\* fmt.Errorf(msg + "%w", err)
Errorf(msg, err) == [msg |-> msg, wraps |-> err]

NoRet == [n |-> -1, err |-> NoErr]

NoPrev == [samples |-> <<>>, out |-> <<>>, completed |-> FALSE]

\* No function of pkg/format is being called on its own.
NoCall == [fn |-> "none"]

(***************************************************************************)
(* The state                                                               *)
(***************************************************************************)

VARIABLES
    arch,               \* the build the program runs as
    args,               \* the arguments NewSine was called with
    sine,               \* the Sine
    pc,                 \* where the WriteTo call is
    samples,            \* Generate's result, WriteTo's samples
    n,                  \* Generate's loop index
    i,                  \* WriteTo's loop index
    totalBytesWritten,  \* WriteTo's byte count
    ret,                \* what WriteTo returned
    sink,               \* the bytes the sink received in this call
    writes,             \* the Write calls made on the sink in this call
    prev,               \* the samples and the output of the call before
    call,               \* a call of a function of pkg/format on its own
    goroutines          \* the frames of the calls that run concurrently

vars == <<arch, args, sine, pc, samples, n, i, totalBytesWritten, ret, sink,
          writes, prev, call, goroutines>>

Init ==
    /\ arch \in Archs
    /\ args \in [frequency : Frequencies, duration : Durations, options : OptionLists]
    /\ sine = NewSine(args.frequency, args.duration, args.options)
    /\ pc = "Configured"
    /\ samples = <<>>
    /\ n = 0
    /\ i = 0
    /\ totalBytesWritten = 0
    /\ ret = NoRet
    /\ sink = <<>>
    /\ writes = <<>>
    /\ prev = NoPrev
    /\ goroutines = <<>>
    /\ call = NoCall

(***************************************************************************)
(* Sine.Generate, as WriteTo calls it                                       *)
(***************************************************************************)

\* result := make([]float64, totalSamples)
MakeSamples(len) == [k \in 1..len |-> FloatOfInt(0)]

\* A slip: the buffer of the call before is kept and grown (a retained
\* slice appended to) instead of a new one being made.
GenerateStartKeepsBuffer ==
    /\ pc = "Configured"
    /\ LET total == totalSamples(arch, sine) IN
         IF MakePanics(total)
         THEN /\ pc' = "Panicked"
              /\ UNCHANGED <<samples, n>>
         ELSE /\ pc' = "Generating"
              /\ samples' = samples \o MakeSamples(total.v)
              /\ n' = 0
    /\ UNCHANGED <<goroutines, call, arch, args, sine, i, totalBytesWritten, ret, sink, writes, prev>>

\* totalSamples := int(...); result := make([]float64, totalSamples)
GenerateStart ==
    /\ pc = "Configured"
    /\ LET total == totalSamples(arch, sine) IN
         IF MakePanics(total)
         THEN /\ pc' = "Panicked"
              /\ UNCHANGED <<samples, n>>
         ELSE /\ pc' = "Generating"
              /\ samples' = MakeSamples(total.v)
              /\ n' = 0
    /\ UNCHANGED <<goroutines, call, arch, args, sine, i, totalBytesWritten, ret, sink, writes, prev>>

\* A slip: the sample is stored without passing the gate.
GenerateSampleUngated ==
    /\ pc = "Generating"
    /\ n < Len(samples)
    /\ samples' = [samples EXCEPT ![n + 1] =
                     continuousSignalAt(arch, sine,
                                        FDiv(arch, FloatOfInt(n), sine.SamplingRate))]
    /\ n' = n + 1
    /\ UNCHANGED <<goroutines, call, arch, args, sine, pc, i, totalBytesWritten, ret, sink, writes, prev>>

\* A slip: each sample is encoded and written as soon as it is computed.
GenerateSampleStreams ==
    /\ pc = "Generating"
    /\ n < Len(samples)
    /\ LET v == calculateSampleValue(arch, n, sine)
           data == ConvertSample(arch, sine.Format, v) IN
         /\ samples' = [samples EXCEPT ![n + 1] = v]
         /\ sink' = sink \o data
         /\ writes' = Append(writes, [size |-> Len(data), n |-> Len(data), err |-> "nil"])
    /\ n' = n + 1
    /\ UNCHANGED <<goroutines, call, arch, args, sine, pc, i, totalBytesWritten, ret, prev>>

\* result[n] = calculateSampleValue(n, s), for n := range totalSamples
GenerateSample ==
    /\ pc = "Generating"
    /\ n < Len(samples)
    /\ samples' = [samples EXCEPT ![n + 1] = calculateSampleValue(arch, n, sine)]
    /\ n' = n + 1
    /\ UNCHANGED <<goroutines, call, arch, args, sine, pc, i, totalBytesWritten, ret, sink, writes, prev>>

\* A slip: Generate returns an error.
GenerateErrInvalid == [msg |-> "invalid parameter", wraps |-> "EINVAL"]

\* Generate's error: it returns result, nil.
GenerateErr == NoErr

\* A slip: Generate normalises the amplitude of its receiver in place.
GenerateReturnClampsAmplitude ==
    /\ pc = "Generating"
    /\ n = Len(samples)
    /\ pc' = "Generated"
    /\ sine' = [sine EXCEPT !.Amplitude = Clamp(@, FloatOfInt(0), FloatOfInt(1))]
    /\ totalBytesWritten' = 0
    /\ i' = 0
    /\ UNCHANGED <<goroutines, call, arch, args, samples, n, ret, sink, writes, prev>>

\* return result, nil; back in WriteTo: the error check, then
\* var totalBytesWritten int64 and the start of the write loop.
GenerateReturn ==
    /\ pc = "Generating"
    /\ n = Len(samples)
    /\ IF GenerateErr # NoErr
       THEN /\ pc' = "Failed"
            /\ ret' = [n |-> 0, err |-> Errorf("unable to generate samples, err: ", GenerateErr.wraps)]
            /\ UNCHANGED <<i, totalBytesWritten>>
       ELSE /\ pc' = "Generated"
            /\ totalBytesWritten' = 0
            /\ i' = 0
            /\ UNCHANGED ret
    /\ UNCHANGED <<goroutines, call, arch, args, sine, samples, n, sink, writes, prev>>

(***************************************************************************)
(* Sine.WriteTo: the write loop                                             *)
(***************************************************************************)

\* The outcomes of one w.Write(data): the sink takes all of data and returns
\* (len(data), nil), or takes the first k bytes and returns (k, err).
WriteOutcomes(data) ==
    {[n |-> Len(data), err |-> "nil"]}
    \cup {[n |-> k, err |-> e] :
            k \in 0..(IF MaxPartial < Len(data) THEN MaxPartial ELSE Len(data) - 1),
            e \in SinkErrors}

\* A slip: the loop reads the buffer from its end.
SampleAtFromEnd(buf, k) == buf[Len(buf) - k]

\* samples[i]
SampleAt(buf, k) == buf[k + 1]

\* A slip: the loop counts the Write calls, not the bytes.
AddWrittenCalls(total, written) == total + 1

\* totalBytesWritten += int64(n)
AddWritten(total, written) == total + written

\* A slip: the count returned with the error includes what the failing
\* Write reported.
CountOnErrorWithPartial(total, written) == total + written

\* return totalBytesWritten, fmt.Errorf(...): the count returned with the
\* error (n, what the failing Write reported, is dropped).
CountOnError(total, written) == total

\* A slip: the loop logs the error and goes on with the next sample.
WriteSampleGoesOn ==
    /\ pc \in {"Generated", "Writing"}
    /\ i < Len(samples)
    /\ LET data == ConvertSample(arch, sine.Format, SampleAt(samples, i)) IN
       \E o \in WriteOutcomes(data) :
         /\ sink' = sink \o SubSeq(data, 1, o.n)
         /\ writes' = Append(writes, [size |-> Len(data), n |-> o.n, err |-> o.err])
         /\ pc' = "Writing"
         /\ totalBytesWritten' = AddWritten(totalBytesWritten, o.n)
         /\ i' = i + 1
         /\ UNCHANGED ret
    /\ UNCHANGED <<goroutines, call, arch, args, sine, samples, n, prev>>

\* One iteration of the loop: convert samples[i], write it, and either
\* return the error or count the bytes.
WriteSample ==
    /\ pc \in {"Generated", "Writing"}
    /\ i < Len(samples)
    /\ LET data == ConvertSample(arch, sine.Format, SampleAt(samples, i)) IN
       \E o \in WriteOutcomes(data) :
         /\ sink' = sink \o SubSeq(data, 1, o.n)
         /\ writes' = Append(writes, [size |-> Len(data), n |-> o.n, err |-> o.err])
         /\ IF o.err # "nil"
            THEN /\ pc' = "Failed"
                 /\ ret' = [n |-> CountOnError(totalBytesWritten, o.n),
                            err |-> Errorf("unable to write data, err: ", o.err)]
                 /\ UNCHANGED <<i, totalBytesWritten>>
            ELSE /\ pc' = "Writing"
                 /\ totalBytesWritten' = AddWritten(totalBytesWritten, o.n)
                 /\ i' = i + 1
                 /\ UNCHANGED ret
    /\ UNCHANGED <<goroutines, call, arch, args, sine, samples, n, prev>>

\* A slip: a last, empty Write flushes the sink before the return.
WriteReturnFlushes ==
    /\ pc \in {"Generated", "Writing"}
    /\ i = Len(samples)
    /\ pc' = "Completed"
    /\ ret' = [n |-> totalBytesWritten, err |-> NoErr]
    /\ writes' = Append(writes, [size |-> 0, n |-> 0, err |-> "nil"])
    /\ UNCHANGED <<goroutines, call, arch, args, sine, samples, n, i, totalBytesWritten, sink, prev>>

\* return totalBytesWritten, nil
WriteReturn ==
    /\ pc \in {"Generated", "Writing"}
    /\ i = Len(samples)
    /\ pc' = "Completed"
    /\ ret' = [n |-> totalBytesWritten, err |-> NoErr]
    /\ UNCHANGED <<goroutines, call, arch, args, sine, samples, n, i, totalBytesWritten, sink, writes, prev>>

(***************************************************************************)
(* The caller                                                              *)
(***************************************************************************)

\* What the caller keeps of a call that has returned: of a successful call,
\* the samples it generated and the bytes its sink holds.
Kept ==
    IF pc = "Completed"
    THEN [samples |-> samples, out |-> sink, completed |-> TRUE]
    ELSE prev

\* The caller calls WriteTo again on the same Sine, with a new, empty sink.
\* The new call has a new frame (n, i and totalBytesWritten are its locals);
\* the buffer the last call allocated is still on the heap.
CallAgain ==
    /\ pc \in {"Completed", "Failed"}
    /\ prev' = Kept
    /\ pc' = "Configured"
    /\ n' = 0
    /\ i' = 0
    /\ totalBytesWritten' = 0
    /\ ret' = NoRet
    /\ sink' = <<>>
    /\ writes' = <<>>
    /\ UNCHANGED <<goroutines, call, arch, args, sine, samples>>

\* The caller constructs a second Sine with NewSine from the same arguments
\* and calls WriteTo on it, with a new, empty sink.
CallOnNewSine ==
    /\ pc \in {"Completed", "Failed"}
    /\ prev' = Kept
    /\ sine' = NewSine(args.frequency, args.duration, args.options)
    /\ pc' = "Configured"
    /\ n' = 0
    /\ i' = 0
    /\ totalBytesWritten' = 0
    /\ ret' = NoRet
    /\ sink' = <<>>
    /\ writes' = <<>>
    /\ UNCHANGED <<goroutines, call, arch, args, samples>>

Next ==
    \/ GenerateStart
    \/ GenerateSample
    \/ GenerateReturn
    \/ WriteSample
    \/ WriteReturn
    \/ CallAgain
    \/ CallOnNewSine

Spec == Init /\ [][Next]_vars

\* A step of the WriteTo call itself (the caller's next call is not one).
CallStep ==
    \/ GenerateStart
    \/ GenerateSample
    \/ GenerateReturn
    \/ WriteSample
    \/ WriteReturn

\* The call runs on: the goroutine is scheduled, and each Write of the sink
\* returns.
FairSpec == Spec /\ WF_vars(CallStep)

(***************************************************************************)
(* WriteTo calls in concurrent goroutines                                  *)
(***************************************************************************)

\* The goroutines that call WriteTo, each with a sink of its own.
Goroutines == {1, 2}

\* The arguments of the Sines the goroutines work on: a rate of 2 or 4 Hz, a
\* negative, a half-second and a one-second duration, two formats.
ConcurrentArgs ==
    [frequency : {FloatOfInt(1)},
     duration : {-1, Second \div 2, Second},
     options : {<<WithSamplingRate(FloatOfInt(r)), WithFormat(f)>> :
                  r \in {2, 4}, f \in {"PCM16", "Float64"}}]

\* The frame of a WriteTo call that has not started: recv says whether the
\* receiver is the Sine all goroutines share or a Sine of the goroutine's
\* own, own.
NewFrame(recv, own) ==
    [recv |-> recv, own |-> own, pc |-> "Configured", samples |-> <<>>, n |-> 0,
     i |-> 0, totalBytesWritten |-> 0, ret |-> NoRet, sink |-> <<>>, writes |-> <<>>]

ConcurrentInit ==
    /\ arch \in Archs
    /\ args \in ConcurrentArgs
    /\ sine = NewSine(args.frequency, args.duration, args.options)
    /\ pc = "Configured"
    /\ samples = <<>>
    /\ n = 0
    /\ i = 0
    /\ totalBytesWritten = 0
    /\ ret = NoRet
    /\ sink = <<>>
    /\ writes = <<>>
    /\ prev = NoPrev
    /\ call = NoCall
    /\ \/ goroutines = [g \in Goroutines |-> NewFrame("shared", sine)]
       \/ \E a \in ConcurrentArgs :
            goroutines =
              [g \in Goroutines |->
                 IF g = 1 THEN NewFrame("own", sine)
                 ELSE NewFrame("own", NewSine(a.frequency, a.duration, a.options))]

\* s, the receiver of goroutine g's call.
Receiver(g) == IF goroutines[g].recv = "shared" THEN sine ELSE goroutines[g].own

\* A slip: the sample buffer hangs off the Sine (a scratch buffer kept for
\* reuse), so calls on a shared Sine work on one buffer.
BufferOfReceiver(g) == IF goroutines[g].recv = "shared" THEN 1 ELSE g

\* The frame that holds the buffer of goroutine g's call: result is a local
\* of Generate, samples a local of WriteTo.
BufferOf(g) == g

\* totalSamples := int(...); result := make([]float64, totalSamples).  A
\* panic no goroutine recovers from ends the whole program, and with it the
\* calls that have not returned.
GoGenerateStart(g) ==
    /\ goroutines[g].pc = "Configured"
    /\ LET total == totalSamples(arch, Receiver(g)) IN
         IF MakePanics(total)
         THEN goroutines' =
                [h \in Goroutines |->
                   [goroutines[h] EXCEPT
                      !.pc = IF h = g THEN "Panicked"
                             ELSE IF @ \in {"Completed", "Failed"} THEN @
                             ELSE "Killed"]]
         ELSE goroutines' =
                [goroutines EXCEPT ![g].pc = "Generating",
                                   ![g].n = 0,
                                   ![BufferOf(g)].samples = MakeSamples(total.v)]
    /\ UNCHANGED <<arch, args, sine, pc, samples, n, i, totalBytesWritten, ret, sink,
                   writes, prev, call>>

\* result[n] = calculateSampleValue(n, s)
GoGenerateSample(g) ==
    /\ goroutines[g].pc = "Generating"
    /\ goroutines[g].n < Len(goroutines[BufferOf(g)].samples)
    /\ goroutines' =
         [goroutines EXCEPT
            ![BufferOf(g)].samples[goroutines[g].n + 1] =
                calculateSampleValue(arch, goroutines[g].n, Receiver(g)),
            ![g].n = @ + 1]
    /\ UNCHANGED <<arch, args, sine, pc, samples, n, i, totalBytesWritten, ret, sink,
                   writes, prev, call>>

\* return result, nil; var totalBytesWritten int64
GoGenerateReturn(g) ==
    /\ goroutines[g].pc = "Generating"
    /\ goroutines[g].n = Len(goroutines[BufferOf(g)].samples)
    /\ goroutines' = [goroutines EXCEPT ![g].pc = "Generated",
                                        ![g].totalBytesWritten = 0,
                                        ![g].i = 0]
    /\ UNCHANGED <<arch, args, sine, pc, samples, n, i, totalBytesWritten, ret, sink,
                   writes, prev, call>>

\* One iteration of the write loop of goroutine g's call, on g's sink.
GoWriteSample(g) ==
    /\ goroutines[g].pc \in {"Generated", "Writing"}
    /\ goroutines[g].i < Len(goroutines[BufferOf(g)].samples)
    /\ LET f == goroutines[g]
           data == ConvertSample(arch, Receiver(g).Format,
                                 SampleAt(goroutines[BufferOf(g)].samples, f.i)) IN
       \E o \in WriteOutcomes(data) :
         goroutines' =
           [goroutines EXCEPT ![g] =
              IF o.err # "nil"
              THEN [f EXCEPT !.sink = @ \o SubSeq(data, 1, o.n),
                             !.writes = Append(@, [size |-> Len(data), n |-> o.n,
                                                   err |-> o.err]),
                             !.pc = "Failed",
                             !.ret = [n |-> CountOnError(f.totalBytesWritten, o.n),
                                      err |-> Errorf("unable to write data, err: ", o.err)]]
              ELSE [f EXCEPT !.sink = @ \o SubSeq(data, 1, o.n),
                             !.writes = Append(@, [size |-> Len(data), n |-> o.n,
                                                   err |-> o.err]),
                             !.pc = "Writing",
                             !.totalBytesWritten = AddWritten(@, o.n),
                             !.i = @ + 1]]
    /\ UNCHANGED <<arch, args, sine, pc, samples, n, i, totalBytesWritten, ret, sink,
                   writes, prev, call>>

\* return totalBytesWritten, nil
GoWriteReturn(g) ==
    /\ goroutines[g].pc \in {"Generated", "Writing"}
    /\ goroutines[g].i = Len(goroutines[BufferOf(g)].samples)
    /\ goroutines' =
         [goroutines EXCEPT ![g].pc = "Completed",
                            ![g].ret = [n |-> goroutines[g].totalBytesWritten,
                                        err |-> NoErr]]
    /\ UNCHANGED <<arch, args, sine, pc, samples, n, i, totalBytesWritten, ret, sink,
                   writes, prev, call>>

ConcurrentNext ==
    \/ \E g \in Goroutines : GoGenerateStart(g)
    \/ \E g \in Goroutines : GoGenerateSample(g)
    \/ \E g \in Goroutines : GoGenerateReturn(g)
    \/ \E g \in Goroutines : GoWriteSample(g)
    \/ \E g \in Goroutines : GoWriteReturn(g)

ConcurrentSpec == ConcurrentInit /\ [][ConcurrentNext]_vars

(***************************************************************************)
(* Definitions the properties share                                        *)
(***************************************************************************)

\* A valid configuration: frequency > 0, samplingRate > 0, duration >= 0,
\* amplitude >= 0.
ValidConfig(s) ==
    /\ FGt(s.Frequency, FloatOfInt(0))
    /\ FGt(s.SamplingRate, FloatOfInt(0))
    /\ s.Duration >= 0
    /\ FGe(s.Amplitude, FloatOfInt(0))

\* floor(samplingRate * durationSeconds) of a valid configuration, as a
\* quotient of integers.
ExpectedSampleCount(s) == (s.SamplingRate.mag * s.Duration) \div (Unit * Second)

\* bitDepth/8 per format, as the specification's table states it.
BytesPerSample(f) ==
    CASE f = "PCM16" -> 2
      [] f = "PCM32" -> 4
      [] f = "Float64" -> 8

\* Generate has returned in the current call: samples is its result.
HasGenerated == pc \in {"Generated", "Writing", "Completed", "Failed"}

\* The current call is over.
Returned == pc \in {"Completed", "Failed", "Panicked"}

\* Every Write call of the current call was accepted by the sink.
SinkAcceptedAll == \A k \in 1..Len(writes) : writes[k].err = "nil"

\* The byte counts the first k Write calls reported, summed.
RECURSIVE SumWritten(_)
SumWritten(k) == IF k = 0 THEN 0 ELSE writes[k].n + SumWritten(k - 1)

\* The frequency is at or above half the sampling rate (both finite), as a
\* comparison of integers.
AtOrAboveNyquist(s) ==
    /\ s.Frequency.cls = "fin"
    /\ s.SamplingRate.cls = "fin"
    /\ 2 * (IF s.Frequency.neg THEN -s.Frequency.mag ELSE s.Frequency.mag)
         >= (IF s.SamplingRate.neg THEN -s.SamplingRate.mag ELSE s.SamplingRate.mag)

\* The frequency is below half the sampling rate (both finite).
BelowNyquist(s) ==
    /\ s.Frequency.cls = "fin"
    /\ s.SamplingRate.cls = "fin"
    /\ 2 * (IF s.Frequency.neg THEN -s.Frequency.mag ELSE s.Frequency.mag)
         < (IF s.SamplingRate.neg THEN -s.SamplingRate.mag ELSE s.SamplingRate.mag)

\* Sample values the encoders and the gate are probed with: in range, out of
\* range, and the specials.
ProbeSamples ==
    {FloatOfInt(0), Fin(TRUE, 0), Fin(FALSE, Unit \div 2), Fin(TRUE, Unit \div 2),
     Fin(FALSE, 819), FloatOfInt(1), FloatOfInt(-1), FloatOfInt(2), FloatOfInt(-2),
     MathNaN, Inf(FALSE), Inf(TRUE)}

(***************************************************************************)
(* pkg/format called on its own: Clamp, Quantize, Encode, ConvertSample    *)
(***************************************************************************)

\* The float64 arguments tried: in range, out of range, the smallest steps
\* of the grid, the signed zeros, the infinities and NaNs of both signs.
SampleInputs ==
    ProbeSamples
    \cup {Fin(FALSE, 1), Fin(TRUE, 1), Fin(FALSE, Unit - 1), Fin(TRUE, Unit - 1),
          Fin(FALSE, Unit + 1), Fin(TRUE, Unit + 1), Fin(FALSE, 3 * Unit + 145),
          NaNOf(TRUE, 0), NaNOf(TRUE, 1), NaNOf(FALSE, 0)}

\* The minVal and maxVal tried with Clamp.
ClampLimits ==
    {FloatOfInt(-1), Fin(TRUE, Unit \div 2), FloatOfInt(0), Fin(TRUE, 0),
     FloatOfInt(1), FloatOfInt(2), Inf(TRUE), Inf(FALSE), MathNaN}

\* The int16 values tried with PCM16.Encode: the ends of the range, the byte
\* boundaries, and 0x1234.
Int16Inputs ==
    {-32767 - 1, -32767, -16384, -16383, -4660, -257, -256, -255, -129, -128,
     -2, -1, 0, 1, 2, 127, 128, 255, 256, 257, 4660, 16383, 16384, 32766, 32767}

\* The int32 values tried with PCM32.Encode: the int16 ones, the ends of the
\* range, the byte boundaries above 16 bits, and 0x12345678.
Int32Inputs ==
    Int16Inputs
    \cup {-2147483647 - 1, -2147483647, -1073741824, -1073741823, -305419896,
          -16777217, -16777216, -65537, -65536, -32769, 32768, 65535, 65536,
          16777215, 16777216, 305419896, 1073741823, 1073741824, 2147483646,
          2147483647}

\* The uint64 values tried with Float64.Encode: the bits of the floats
\* above, 0x0123456789ABCDEF, and all ones.
Uint64Inputs ==
    {Float64bits(x) : x \in SampleInputs}
    \cup {<<52719, 35243, 17767, 291>>, <<65535, 65535, 65535, 65535>>}

FormatInit ==
    /\ arch \in Archs
    /\ args = [frequency |-> FloatOfInt(1), duration |-> 0, options |-> <<>>]
    /\ sine = NewSine(args.frequency, args.duration, args.options)
    /\ pc = "Configured"
    /\ samples = <<>>
    /\ n = 0
    /\ i = 0
    /\ totalBytesWritten = 0
    /\ ret = NoRet
    /\ sink = <<>>
    /\ writes = <<>>
    /\ prev = NoPrev
    /\ goroutines = <<>>
    /\ \/ call \in [fn : {"Clamp"}, value : SampleInputs, minVal : ClampLimits,
                    maxVal : ClampLimits, done : {FALSE}]
       \/ call \in [fn : {"PCM16.Quantize", "PCM32.Quantize", "Float64.Quantize"},
                    sample : SampleInputs, done : {FALSE}]
       \/ call \in [fn : {"PCM16.Encode"}, value : Int16Inputs, done : {FALSE}]
       \/ call \in [fn : {"PCM32.Encode"}, value : Int32Inputs, done : {FALSE}]
       \/ call \in [fn : {"Float64.Encode"}, value : Uint64Inputs, done : {FALSE}]
       \/ call \in [fn : {"ConvertSample"}, format : Formats,
                    sample : SampleInputs, done : {FALSE}]

\* The variables of the WriteTo pipeline, which these calls leave alone.
pipelineVars ==
    <<arch, args, sine, pc, samples, n, i, totalBytesWritten, ret, sink, writes, prev,
      goroutines>>

\* The call has returned result.
Return(c, result) ==
    [x \in DOMAIN c \cup {"result"} |->
        IF x = "result" THEN result ELSE IF x = "done" THEN TRUE ELSE c[x]]

CallClamp ==
    /\ call.fn = "Clamp"
    /\ ~call.done
    /\ call' = Return(call, Clamp(call.value, call.minVal, call.maxVal))
    /\ UNCHANGED pipelineVars

CallPCM16Quantize ==
    /\ call.fn = "PCM16.Quantize"
    /\ ~call.done
    /\ call' = Return(call, PCM16Quantize(arch, call.sample))
    /\ UNCHANGED pipelineVars

CallPCM32Quantize ==
    /\ call.fn = "PCM32.Quantize"
    /\ ~call.done
    /\ call' = Return(call, PCM32Quantize(arch, call.sample))
    /\ UNCHANGED pipelineVars

CallFloat64Quantize ==
    /\ call.fn = "Float64.Quantize"
    /\ ~call.done
    /\ call' = Return(call, Float64Quantize(call.sample))
    /\ UNCHANGED pipelineVars

CallPCM16Encode ==
    /\ call.fn = "PCM16.Encode"
    /\ ~call.done
    /\ call' = Return(call, PCM16Encode(call.value))
    /\ UNCHANGED pipelineVars

CallPCM32Encode ==
    /\ call.fn = "PCM32.Encode"
    /\ ~call.done
    /\ call' = Return(call, PCM32Encode(call.value))
    /\ UNCHANGED pipelineVars

CallFloat64Encode ==
    /\ call.fn = "Float64.Encode"
    /\ ~call.done
    /\ call' = Return(call, Float64Encode(call.value))
    /\ UNCHANGED pipelineVars

CallConvertSample ==
    /\ call.fn = "ConvertSample"
    /\ ~call.done
    /\ call' = Return(call, ConvertSample(arch, call.format, call.sample))
    /\ UNCHANGED pipelineVars

FormatNext ==
    \/ CallClamp
    \/ CallPCM16Quantize
    \/ CallPCM32Quantize
    \/ CallFloat64Quantize
    \/ CallPCM16Encode
    \/ CallPCM32Encode
    \/ CallFloat64Encode
    \/ CallConvertSample

FormatSpec == FormatInit /\ [][FormatNext]_vars

\* The call of fn has returned.
Called(fn) == call.fn = fn /\ call.done

\* int16(b[0]) | int16(b[1])<<8: the bytes reassembled as a signed integer.
Int16FromBytes(b) == b[1] + 256 * (IF b[2] >= 128 THEN b[2] - 256 ELSE b[2])

\* int32(b[0]) | int32(b[1])<<8 | int32(b[2])<<16 | int32(b[3])<<24
Int32FromBytes(b) ==
    b[1] + 256 * b[2] + 65536 * b[3]
      + 16777216 * (IF b[4] >= 128 THEN b[4] - 256 ELSE b[4])

\* uint64(b[0]) | uint64(b[1])<<8 | ... | uint64(b[7])<<56, in 16-bit limbs.
Uint64FromBytes(b) == [k \in 1..4 |-> b[2 * k - 1] + 256 * b[2 * k]]

\* math.Float64frombits, on the values of the grid.
Float64frombits(bits) ==
    LET neg  == bits[4] >= 32768
        bexp == (bits[4] % 32768) \div 16
        m20  == (bits[4] % 16) * 65536 + bits[3]
    IN IF bexp = 2047
       THEN (IF m20 = 0 /\ bits[2] = 0 /\ bits[1] = 0 THEN Inf(neg)
             ELSE NaNOf(neg, bits[1]))
       ELSE IF bexp = 0 THEN Fin(neg, 0)
       ELSE LET p == bexp - 1023 + Log2(Unit)
            IN Fin(neg, 2^p + m20 \div 2^(20 - p))

(***************************************************************************)
(* NewSine, one option at a time                                           *)
(***************************************************************************)

\* The most options given to one NewSine.
MaxOptions == 2

\* sine := &Sine{...defaults...}: NewSine before its loop over the options.
\* The options are recorded in args as the loop applies them.
ConfigInit ==
    /\ arch \in Archs
    /\ args \in [frequency : Frequencies, duration : Durations, options : {<<>>}]
    /\ sine = NewSine(args.frequency, args.duration, <<>>)
    /\ pc = "Constructing"
    /\ samples = <<>>
    /\ n = 0
    /\ i = 0
    /\ totalBytesWritten = 0
    /\ ret = NoRet
    /\ sink = <<>>
    /\ writes = <<>>
    /\ prev = NoPrev
    /\ goroutines = <<>>
    /\ call = NoCall

\* opt(sine) for the next option of the list, a WithAmplitude.
ApplyWithAmplitude ==
    /\ pc = "Constructing"
    /\ Len(args.options) < MaxOptions
    /\ \E v \in Amplitudes \cup {FloatOfInt(1)} :
         /\ sine' = ApplyOption(sine, WithAmplitude(v))
         /\ args' = [args EXCEPT !.options = Append(@, WithAmplitude(v))]
    /\ UNCHANGED <<arch, pc, samples, n, i, totalBytesWritten, ret, sink, writes,
                   prev, call, goroutines>>

\* opt(sine) for the next option of the list, a WithSamplingRate.
ApplyWithSamplingRate ==
    /\ pc = "Constructing"
    /\ Len(args.options) < MaxOptions
    /\ \E v \in SamplingRates \cup {DefaultSamplingRate} :
         /\ sine' = ApplyOption(sine, WithSamplingRate(v))
         /\ args' = [args EXCEPT !.options = Append(@, WithSamplingRate(v))]
    /\ UNCHANGED <<arch, pc, samples, n, i, totalBytesWritten, ret, sink, writes,
                   prev, call, goroutines>>

\* opt(sine) for the next option of the list, a WithFormat.
ApplyWithFormat ==
    /\ pc = "Constructing"
    /\ Len(args.options) < MaxOptions
    /\ \E v \in Formats :
         /\ sine' = ApplyOption(sine, WithFormat(v))
         /\ args' = [args EXCEPT !.options = Append(@, WithFormat(v))]
    /\ UNCHANGED <<arch, pc, samples, n, i, totalBytesWritten, ret, sink, writes,
                   prev, call, goroutines>>

ConfigNext ==
    \/ ApplyWithAmplitude
    \/ ApplyWithSamplingRate
    \/ ApplyWithFormat

ConfigSpec == ConfigInit /\ [][ConfigNext]_vars

\* The value the last option named name of the list carries, or default
\* when the list has no such option.
LastOption(options, name, default) ==
    LET at == {k \in 1..Len(options) : options[k].opt = name}
    IN IF at = {} THEN default
       ELSE options[CHOOSE k \in at : \A j \in at : j <= k].val

(***************************************************************************)
(* C1..C10                                                                 *)
(***************************************************************************)

\* C1: for a valid configuration and any format, a WriteTo call whose sink
\* accepted every write returns a nil error and sampleCount * (bitDepth/8)
\* bytes written, and the sink received exactly that many bytes.
C1_ByteAccounting ==
    (ValidConfig(sine) /\ Returned /\ SinkAcceptedAll) =>
        /\ pc = "Completed"
        /\ ret.err = NoErr
        /\ ret.n = ExpectedSampleCount(sine) * BytesPerSample(sine.Format)
        /\ Len(sink) = ret.n

C1_Witness ==
    /\ ValidConfig(sine)
    /\ pc = "Completed"
    /\ sine.Format = "Float64"
    /\ ret.n = 64

\* C2: when a sink Write fails at sample index k, WriteTo returns a non-nil
\* error wrapping the sink's error, and the sum of the byte counts of the k
\* writes that succeeded before it.
C2_FailureReturn ==
    pc = "Failed" =>
        LET k == Len(writes) - 1 IN
        /\ k >= 0
        /\ k < Len(samples)
        /\ \A j \in 1..k : writes[j].err = "nil"
        /\ writes[k + 1].err # "nil"
        /\ ret.err # NoErr
        /\ ret.err.wraps = writes[k + 1].err
        /\ ret.n = SumWritten(k)

C2_Witness ==
    /\ pc = "Failed"
    /\ Len(writes) = 3
    /\ writes[3].n = 1
    /\ writes[3].err = "ENOSPC"
    /\ ret.n = 8

\* C3: after a Write call returned an error, the call makes no further Write
\* on the sink (the failed write is not retried, the later samples are not
\* written): the sink and the list of Write calls stay as they are until the
\* caller starts another call.
C3_AbortAtFirstFailure ==
    [][(writes # <<>> /\ writes[Len(writes)].err # "nil")
         => (pc' = "Configured" \/ (writes' = writes /\ sink' = sink /\ pc' = "Failed"))]_vars

C3_Witness ==
    /\ pc = "Failed"
    /\ Len(writes) = 2
    /\ Len(samples) >= 4
    /\ writes[2].err = "EIO"

\* C4: after a successful WriteTo the sink holds the encodings of the
\* samples in index order: bytes [n*w, (n+1)*w) are ConvertSample(sample n),
\* with w = bitDepth/8, and nothing else.
C4_OrderedFraming ==
    pc = "Completed" =>
        LET w == BitDepth(sine.Format) \div 8 IN
        /\ Len(sink) = Len(samples) * w
        /\ \A k \in 0..(Len(samples) - 1) :
             SubSeq(sink, k * w + 1, (k + 1) * w)
               = ConvertSample(arch, sine.Format, samples[k + 1])

C4_Witness ==
    /\ pc = "Completed"
    /\ sine.Format = "PCM32"
    /\ Len(samples) >= 3
    /\ samples[2] # samples[1]
    /\ samples[3] # samples[2]
    /\ samples[3] # samples[1]

\* C5: for a valid configuration Generate returns floor(samplingRate *
\* durationSeconds) samples and no error (it does not panic); for a zero
\* duration it returns the empty sequence.
C5_SampleCount ==
    ValidConfig(sine) =>
        /\ pc # "Panicked"
        /\ GenerateErr = NoErr
        /\ HasGenerated => Len(samples) = ExpectedSampleCount(sine)
        /\ (HasGenerated /\ sine.Duration = 0) => samples = <<>>

\* A valid configuration whose samplingRate * durationSeconds is not whole.
C5_Witness ==
    /\ ValidConfig(sine)
    /\ pc = "Generated"
    /\ (sine.SamplingRate.mag * sine.Duration) % (Unit * Second) # 0
    /\ Len(samples) = 1

\* C6: every sample Generate returns satisfies abs(sample) <= amplitude, for
\* every configuration with amplitude >= 0.
C6_AmplitudeBound ==
    (HasGenerated /\ FGe(sine.Amplitude, FloatOfInt(0))) =>
        \A k \in 1..Len(samples) : FLe(FAbs(samples[k]), sine.Amplitude)

\* C7: the gate returns 0.0 for every signal value when frequency >=
\* samplingRate/2 (inclusive), and the signal value itself when frequency <
\* samplingRate/2.
C7_NyquistGate ==
    \A signal \in ProbeSamples :
        /\ AtOrAboveNyquist(sine)
             => applyAntiAliasingFilter(arch, sine, signal) = FloatOfInt(0)
        /\ BelowNyquist(sine)
             => applyAntiAliasingFilter(arch, sine, signal) = signal

\* A Sine exactly at the Nyquist frequency whose samples were generated.
C7_Witness ==
    /\ pc = "Generated"
    /\ sine.Frequency = FloatOfInt(2)
    /\ sine.SamplingRate = FloatOfInt(4)
    /\ Len(samples) = 4

C9_Deterministic ==
    /\ (prev.completed /\ HasGenerated) => samples = prev.samples
    /\ (prev.completed /\ pc = "Completed") => sink = prev.out

C9_Witness ==
    /\ prev.completed
    /\ pc = "Completed"
    /\ Len(sink) = 16
    /\ sine.Format = "PCM16"
    /\ ValidConfig(sine)

\* C10: ConvertSample returns BitDepth()/8 bytes, 2 for PCM16, 4 for PCM32
\* and 8 for Float64, whatever the sample value, in range or not: every
\* Write call carries the encoding of one sample, of that many bytes.
C10_EncodedLength ==
    \A k \in 1..Len(writes) :
        /\ writes[k].size = BitDepth(sine.Format) \div 8
        /\ writes[k].size = BytesPerSample(sine.Format)

\* A sample out of [-1, 1] was encoded and written.
C10_Witness ==
    /\ pc = "Writing"
    /\ i = 2
    /\ sine.Format = "PCM32"
    /\ FGt(samples[2], FloatOfInt(1))

(***************************************************************************)
(* C11..C20                                                                *)
(***************************************************************************)

\* C11: PCM16 and PCM32 quantization saturates and never wraps: Quantize(x)
\* is Quantize(1.0) (32767, 2147483647) for every x > 1.0, and Quantize(-1.0)
\* (-32767, -2147483647) for every x < -1.0.
C11_Saturates ==
    /\ (Called("PCM16.Quantize") /\ FGt(call.sample, FloatOfInt(1))) =>
           /\ call.result = 32767
           /\ call.result = PCM16Quantize(arch, FloatOfInt(1))
    /\ (Called("PCM16.Quantize") /\ FLt(call.sample, FloatOfInt(-1))) =>
           /\ call.result = -32767
           /\ call.result = PCM16Quantize(arch, FloatOfInt(-1))
    /\ (Called("PCM32.Quantize") /\ FGt(call.sample, FloatOfInt(1))) =>
           /\ call.result = 2147483647
           /\ call.result = PCM32Quantize(arch, FloatOfInt(1))
    /\ (Called("PCM32.Quantize") /\ FLt(call.sample, FloatOfInt(-1))) =>
           /\ call.result = -2147483647
           /\ call.result = PCM32Quantize(arch, FloatOfInt(-1))

\* PCM16.Quantize has returned for a finite sample above 1.0.
C11_Witness ==
    /\ Called("PCM16.Quantize")
    /\ call.sample.cls = "fin"
    /\ FGt(call.sample, FloatOfInt(1))
    /\ call.result = 32767

\* The sample is in [-1.0, 1.0].
InRange(x) == FGe(x, FloatOfInt(-1)) /\ FLe(x, FloatOfInt(1))

\* x * 32767 truncated toward zero, for x in range.
Truncated16(x) == (IF x.neg THEN -1 ELSE 1) * ((x.mag * 32767) \div Unit)

\* x * 2147483647 truncated toward zero, for x = m/Unit in range: the product
\* is m * 2^21 - m/Unit with 0 < m/Unit <= 1, whose integer part is
\* m * 2^21 - 1.
Truncated32(x) ==
    IF x.mag = 0 THEN 0
    ELSE (IF x.neg THEN -1 ELSE 1) * ((x.mag - 1) * 2097152 + 2097151)

\* C12: for a sample x in [-1.0, 1.0], PCM16 Quantize returns x*32767 and
\* PCM32 Quantize x*2147483647, truncated toward zero: 0.5 gives 16383 (bytes
\* FF 3F), -0.5 gives -16383 (bytes 01 C0), and 0.5 gives 1073741823 for PCM32.
C12_Truncates ==
    /\ (Called("PCM16.Quantize") /\ InRange(call.sample)) =>
           /\ call.result = Truncated16(call.sample)
           /\ call.sample = Fin(FALSE, Unit \div 2) => call.result = 16383
           /\ call.sample = Fin(TRUE, Unit \div 2) => call.result = -16383
    /\ (Called("PCM32.Quantize") /\ InRange(call.sample)) =>
           /\ call.result = Truncated32(call.sample)
           /\ call.sample = Fin(FALSE, Unit \div 2) => call.result = 1073741823
    /\ (Called("ConvertSample") /\ call.format = "PCM16") =>
           /\ call.sample = Fin(FALSE, Unit \div 2) => call.result = <<255, 63>>
           /\ call.sample = Fin(TRUE, Unit \div 2) => call.result = <<1, 192>>

\* PCM16.Quantize has returned for -0.5, whose product -16383.5 is not whole.
C12_Witness ==
    /\ Called("PCM16.Quantize")
    /\ call.sample = Fin(TRUE, Unit \div 2)
    /\ call.result = -16383

\* C13: PCM16.Encode and PCM32.Encode are little-endian two's complement and
\* lossless: byte i of Encode(v) is (v >> 8i) & 0xFF, least significant byte
\* first, and the bytes reassembled give v again.
C13_LittleEndian ==
    /\ Called("PCM16.Encode") =>
           /\ Len(call.result) = 2
           /\ \A k \in 0..1 : call.result[k + 1] = (call.value \div 2^(8 * k)) % 256
           /\ Int16FromBytes(call.result) = call.value
           /\ call.value = 4660 => call.result = <<52, 18>>
    /\ Called("PCM32.Encode") =>
           /\ Len(call.result) = 4
           /\ \A k \in 0..3 : call.result[k + 1] = (call.value \div 2^(8 * k)) % 256
           /\ Int32FromBytes(call.result) = call.value
           /\ call.value = 305419896 => call.result = <<120, 86, 52, 18>>

\* PCM32.Encode has returned for the smallest int32.
C13_Witness ==
    /\ Called("PCM32.Encode")
    /\ call.value = -2147483647 - 1
    /\ call.result = <<0, 0, 0, 128>>

\* C14: Float64 encoding round-trips exactly: the eight little-endian bytes
\* of Encode(Quantize(x)) reassemble to the bit pattern of x, for NaN, the
\* infinities and the signed zeros too, with no clamping or scaling.
C14_Float64RoundTrip ==
    /\ (Called("ConvertSample") /\ call.format = "Float64") =>
           /\ Len(call.result) = 8
           /\ Uint64FromBytes(call.result) = Float64bits(call.sample)
           /\ Float64frombits(Uint64FromBytes(call.result)) = call.sample
           /\ call.sample = FloatOfInt(1) => call.result = <<0, 0, 0, 0, 0, 0, 240, 63>>
           /\ call.sample = FloatOfInt(-2) => call.result = <<0, 0, 0, 0, 0, 0, 0, 192>>
           /\ call.sample = Inf(FALSE) => call.result = <<0, 0, 0, 0, 0, 0, 240, 127>>
           /\ call.sample = Fin(TRUE, 0) => call.result = <<0, 0, 0, 0, 0, 0, 0, 128>>
           /\ call.sample = MathNaN => call.result = <<1, 0, 0, 0, 0, 0, 248, 127>>
    /\ Called("Float64.Encode") => Uint64FromBytes(call.result) = call.value
    /\ Called("Float64.Quantize") => Float64frombits(call.result) = call.sample

\* Float64.ConvertSample has returned for a NaN with its sign bit set.
C14_Witness ==
    /\ Called("ConvertSample")
    /\ call.format = "Float64"
    /\ IsNaN(call.sample)
    /\ call.sample.neg
    /\ call.result[8] = 255

\* C15: no panic escapes the core under any input: NewSine, Generate and
\* WriteTo complete without panicking for every configuration and every
\* sink.
C15_NoPanic == pc # "Panicked"

\* The configuration is out of the domain: frequency or samplingRate <= 0,
\* amplitude or duration negative, or a NaN or infinite parameter.
InvalidParameter(s) ==
    \/ s.Frequency.cls # "fin" \/ ~FGt(s.Frequency, FloatOfInt(0))
    \/ s.SamplingRate.cls # "fin" \/ ~FGt(s.SamplingRate, FloatOfInt(0))
    \/ s.Amplitude.cls # "fin" \/ FLt(s.Amplitude, FloatOfInt(0))
    \/ s.Duration < 0

\* C16: invalid or nonsensical parameters are rejected: with an out-of-domain
\* configuration, construction or Generate/WriteTo reports an error instead
\* of producing samples or bytes: Generate does not return a result, no
\* byte reaches the sink, and WriteTo does not return without an error.
C16_InvalidRejected ==
    InvalidParameter(sine) =>
        /\ pc \notin {"Generated", "Writing", "Completed"}
        /\ sink = <<>>
        /\ ret.err = NoErr => ret = NoRet

\* C17: NewSine(frequency, duration) with no options yields amplitude 1.0,
\* samplingRate 44100.0 and format PCM16 with the given frequency and
\* duration; each option sets exactly its own field and leaves every other
\* field as it was: a field holds what the last option for it carried, or
\* its default.
C17_DefaultsAndOptions ==
    /\ sine.Frequency = args.frequency
    /\ sine.Duration = args.duration
    /\ sine.Amplitude = LastOption(args.options, "WithAmplitude", FloatOfInt(1))
    /\ sine.SamplingRate = LastOption(args.options, "WithSamplingRate", FloatOfInt(44100))
    /\ sine.Format = LastOption(args.options, "WithFormat", "PCM16")
    /\ DOMAIN sine = {"Frequency", "Duration", "Amplitude", "SamplingRate", "Format"}
    /\ args.options = <<>> =>
           sine = [Frequency |-> args.frequency, Duration |-> args.duration,
                   Amplitude |-> FloatOfInt(1), SamplingRate |-> FloatOfInt(44100),
                   Format |-> "PCM16"]

\* NewSine has applied WithAmplitude(0.5) and then WithFormat(Float64): the
\* sampling rate is still the default.
C17_Witness ==
    /\ pc = "Constructing"
    /\ args.options = <<WithAmplitude(Fin(FALSE, Unit \div 2)), WithFormat("Float64")>>
    /\ sine.Amplitude = Fin(FALSE, Unit \div 2)
    /\ sine.SamplingRate = FloatOfInt(44100)
    /\ sine.Format = "Float64"

\* The samples Generate returns for s, from s alone.
FreshSamples(a, s) ==
    [k \in 1..totalSamples(a, s).v |-> calculateSampleValue(a, k - 1, s)]

\* C18: the configuration is never mutated after construction: no step of
\* Generate or WriteTo, in a call that succeeds or fails, changes a field of
\* the Sine; and no state of one call is carried into the next: a call starts
\* with fresh locals and an empty sink, and Generate's result is a function
\* of the configuration alone.
C18_ConfigImmutable ==
    [][/\ sine' = sine
       /\ pc' = "Configured" =>
              /\ n' = 0
              /\ i' = 0
              /\ totalBytesWritten' = 0
              /\ ret' = NoRet
              /\ sink' = <<>>
              /\ writes' = <<>>
       /\ pc' = "Generated" => samples' = FreshSamples(arch, sine)]_vars

\* A second call has completed on a Sine whose earlier call completed too,
\* with the configuration NewSine built.
C18_Witness ==
    /\ pc = "Completed"
    /\ prev.completed
    /\ samples # <<>>
    /\ sine = NewSine(args.frequency, args.duration, args.options)

\* C19: PCM16 and PCM32 ConvertSample are total and defined for every float
\* input: for out-of-range, NaN, +Inf and -Inf inputs the quantized value is
\* within [-32767, 32767] resp. [-2147483647, 2147483647], and the same
\* input always yields the same bytes.
C19_PCMTotal ==
    /\ Called("PCM16.Quantize") => call.result \in (-32767)..32767
    /\ Called("PCM32.Quantize") =>
           (call.result >= -2147483647 /\ call.result <= 2147483647)
    /\ (Called("ConvertSample") /\ call.format \in {"PCM16", "PCM32"}) =>
           call.result = ConvertSample(arch, call.format, call.sample)

\* The arguments of the Clamp call are finite, with minVal <= maxVal.
ClampDomain ==
    /\ call.value.cls = "fin"
    /\ call.minVal.cls = "fin"
    /\ call.maxVal.cls = "fin"
    /\ FLe(call.minVal, call.maxVal)

\* C20: for finite value, min and max with min <= max, Clamp(value, min, max)
\* returns min when value < min, max when value > max, and value itself
\* otherwise, so the result lies in [min, max].
C20_Clamp ==
    (Called("Clamp") /\ ClampDomain) =>
        /\ FLt(call.value, call.minVal) => call.result = call.minVal
        /\ FGt(call.value, call.maxVal) => call.result = call.maxVal
        /\ (FGe(call.value, call.minVal) /\ FLe(call.value, call.maxVal))
               => call.result = call.value
        /\ FGe(call.result, call.minVal)
        /\ FLe(call.result, call.maxVal)

\* Clamp has returned maxVal for a value above it.
C20_Witness ==
    /\ Called("Clamp")
    /\ ClampDomain
    /\ FGt(call.value, call.maxVal)
    /\ FLt(call.minVal, call.maxVal)
    /\ call.result = call.maxVal

(***************************************************************************)
(* C21..C30                                                                *)
(***************************************************************************)

\* C21: generation is eager: within one WriteTo call no byte is written to
\* the sink, and no Write is called, before all sampleCount samples have
\* been generated.
C21_Eager ==
    /\ pc \in {"Configured", "Generating", "Generated", "Panicked"} =>
           (writes = <<>> /\ sink = <<>>)
    /\ (writes # <<>> \/ sink # <<>>) =>
           /\ n = Len(samples)
           /\ GoInt(Len(samples)) = totalSamples(arch, sine)
           /\ samples = FreshSamples(arch, sine)

\* The first Write of a call has been made, after the generation of a
\* buffer of several samples.
C21_Witness ==
    /\ pc = "Writing"
    /\ Len(writes) = 1
    /\ Len(samples) >= 3
    /\ n = Len(samples)

C25_ByIndex ==
    HasGenerated =>
        /\ \A k \in 0..(Len(samples) - 1) :
             samples[k + 1] = calculateSampleValue(arch, k, sine)
        /\ Len(samples) >= 1 => FEq(samples[1], FloatOfInt(0))

C28_FailingCountDropped ==
    (pc = "Failed" /\ writes[Len(writes)].n > 0) =>
        /\ ret.n = SumWritten(Len(writes) - 1)
        /\ ret.n = Len(sink) - writes[Len(writes)].n
        /\ ret.n < Len(sink)

\* The second Write failed after taking one byte.
C28_Witness ==
    /\ pc = "Failed"
    /\ Len(writes) = 2
    /\ writes[2].n = 1
    /\ ret.n = BytesPerSample(sine.Format)
    /\ Len(sink) = ret.n + 1

\* C29: WriteTo issues exactly one Write call per sample, each of bitDepth/8
\* bytes: a successful call makes exactly sampleCount Write calls, and for
\* sampleCount = 0 none, returning (0, nil).
C29_OneWritePerSample ==
    /\ HasGenerated =>
           /\ Len(writes) = (IF pc = "Failed" THEN i + 1 ELSE i)
           /\ \A k \in 1..Len(writes) : writes[k].size = BitDepth(sine.Format) \div 8
    /\ pc = "Completed" =>
           /\ Len(writes) = Len(samples)
           /\ GoInt(Len(writes)) = totalSamples(arch, sine)
    /\ (pc \in {"Completed", "Failed"} /\ totalSamples(arch, sine) = GoInt(0)) =>
           /\ writes = <<>>
           /\ ret = [n |-> 0, err |-> NoErr]

\* A call for no sample at all has returned.
C29_Witness ==
    /\ pc = "Completed"
    /\ ValidConfig(sine)
    /\ sine.Duration = 0
    /\ writes = <<>>
    /\ ret.n = 0

\* The sink of the current call accepted each Write completely or not at
\* all.
AllOrNothing ==
    \A k \in 1..Len(writes) :
        writes[k].n = (IF writes[k].err = "nil" THEN writes[k].size ELSE 0)

\* C30: partial output is a whole-sample prefix: with a sink that accepts a
\* write completely or fails it, the sink holds at every point of a call
\* (and after a failure at sample k) exactly the encodings of samples
\* 0..k-1, a prefix of what a successful call delivers, of a length that is
\* a multiple of bitDepth/8.
C30_WholeSamplePrefix ==
    (HasGenerated /\ AllOrNothing) =>
        LET w == BitDepth(sine.Format) \div 8 IN
        /\ Len(sink) = i * w
        /\ Len(sink) % w = 0
        /\ \A k \in 0..(i - 1) :
             SubSeq(sink, k * w + 1, (k + 1) * w)
               = ConvertSample(arch, sine.Format, calculateSampleValue(arch, k, sine))

\* The third Write failed with nothing taken: the sink holds two samples.
C30_Witness ==
    /\ pc = "Failed"
    /\ AllOrNothing
    /\ i = 2
    /\ Len(sink) = 2 * BytesPerSample(sine.Format)
    /\ samples[1] # samples[2]

\* The moves of a WriteTo call between its phases.  Generation is the way
\* from Configured to Generated; the write loop is Encoding&Writing, which a
\* call with no sample, or whose first Write fails, leaves as it enters it.
PhaseMoves ==
    {<<"Configured", "Generating">>, <<"Generating", "Generated">>,
     <<"Generated", "Writing">>, <<"Generated", "Completed">>,
     <<"Generated", "Failed">>, <<"Writing", "Completed">>,
     <<"Writing", "Failed">>}

\* C22: a WriteTo call moves only along Configured -> Generated ->
\* Encoding&Writing -> {Completed | Failed}: it never returns to an earlier
\* phase, Failed is entered only from the write loop on a sink write
\* failure, Completed only after every sample has been written, and
\* Completed and Failed are terminal (what follows them is the caller's
\* next call, which starts in Configured).
C22_PhaseOrder ==
    [][/\ pc' # pc =>
              \/ <<pc, pc'>> \in PhaseMoves
              \/ pc \in {"Completed", "Failed"} /\ pc' = "Configured" /\ ret' = NoRet
       /\ (pc' = "Failed" /\ pc # "Failed") =>
              /\ Len(writes') = Len(writes) + 1
              /\ writes'[Len(writes')].err # "nil"
       /\ (pc' = "Completed" /\ pc # "Completed") =>
              /\ i = Len(samples)
              /\ Len(writes) = Len(samples)
              /\ SinkAcceptedAll
       /\ pc \in {"Completed", "Failed"} =>
              (pc' = pc \/ pc' = "Configured")]_vars

\* The sample count of the configuration is a finite number.
FiniteSampleCount == totalSamples(arch, sine).big = "no"

\* C27: every WriteTo call with a finite sample count and a sink whose Write
\* calls return terminates, in Completed or Failed, after at most
\* sampleCount Write calls; no cancellation or timeout ends it earlier: it
\* completes only when every sample has been written.
C27_Terminates ==
    /\ (pc = "Configured" /\ FiniteSampleCount) ~> (pc \in {"Completed", "Failed"})
    /\ [](FiniteSampleCount =>
            (writes = <<>> \/ Len(writes) <= totalSamples(arch, sine).v))
    /\ []((pc = "Completed" /\ FiniteSampleCount) =>
            Len(writes) = totalSamples(arch, sine).v)

\* What a sink holds after the first k Write calls recorded in ws, each
\* having carried the encoding of its sample of buf in format f and taken
\* the bytes it reported.
RECURSIVE Delivered(_, _, _, _, _)
Delivered(a, f, buf, ws, k) ==
    IF k = 0 THEN <<>>
    ELSE Delivered(a, f, buf, ws, k - 1)
           \o SubSeq(ConvertSample(a, f, buf[k]), 1, ws[k].n)

\* What goroutine g's call has as it would have it run alone, with its
\* sink answering as it did: the samples of its configuration, their
\* encodings in the sink, and the count and error of a call run alone.
AsRunAlone(g) ==
    LET f     == goroutines[g]
        s     == Receiver(g)
        w     == BitDepth(s.Format) \div 8
        fresh == FreshSamples(arch, s)
    IN /\ f.pc \in {"Generated", "Writing", "Completed", "Failed"} =>
              goroutines[BufferOf(g)].samples = fresh
       /\ Len(f.writes) <= Len(fresh)
       /\ f.sink = Delivered(arch, s.Format, fresh, f.writes, Len(f.writes))
       /\ f.pc = "Completed" =>
              /\ Len(f.writes) = Len(fresh)
              /\ f.ret = [n |-> Len(fresh) * w, err |-> NoErr]
       /\ f.pc = "Failed" =>
              f.ret = [n |-> (Len(f.writes) - 1) * w,
                       err |-> Errorf("unable to write data, err: ",
                                      f.writes[Len(f.writes)].err)]
       /\ f.pc \notin {"Completed", "Failed"} => f.ret = NoRet
       /\ f.pc \in {"Configured", "Generating", "Panicked"} => f.sink = <<>>

\* C23: concurrent processing needs no synchronization: with several
\* Generate or WriteTo calls interleaved, on distinct Sines or on one shared
\* Sine with a sink per call, every call has the samples, the byte count
\* and the sink contents of the same call run alone, and the shared Sine is
\* not changed.
C23_NoInterference ==
    /\ \A g \in DOMAIN goroutines : AsRunAlone(g)
    /\ sine = NewSine(args.frequency, args.duration, args.options)

\* Two calls on one shared Sine, interleaved: the first is in its write
\* loop with bytes in its sink while the second is still generating.
C23_Witness ==
    /\ goroutines # <<>>
    /\ goroutines[1].recv = "shared"
    /\ goroutines[1].pc = "Writing"
    /\ Len(goroutines[1].sink) >= 4
    /\ goroutines[2].pc = "Generating"
    /\ goroutines[2].n = 2
    /\ goroutines[2].samples[2] # FloatOfInt(0)

====
